---- MODULE Spec2Model ----
(***************************************************************************)
(* A model of the HTTP/2 frame decoder of htoo (src/src/parsers.rs,        *)
(* src/src/frames.rs, src/src/flags.rs).                                   *)
(*                                                                         *)
(* Every decode function is a pure function of a byte buffer, a declared   *)
(* length and a flags byte.  The state holds one set of inputs and the     *)
(* outcome of the one decode call applied to them.                         *)
(*                                                                         *)
(* A u32 is the record [hi |-> 0..65535, lo |-> 0..65535] (the two 16-bit  *)
(* halves), so that all 32 bits are kept.                                  *)
(* Option<T> is a sequence: None is << >>, Some(x) is << x >>.             *)
(* IResult is [ok |-> TRUE, tail, val] or [ok |-> FALSE, kind].            *)
(***************************************************************************)
EXTENDS Integers, Sequences, FiniteSets, TLC

VARIABLES
    buf,     \* the byte buffer handed to the decode call
    addr,    \* the address of the first byte of buf, modulo 4
    length,  \* the declared length (the 24 bits of the header's length field)
    flags,   \* the flags byte of the header
    op,      \* the decode call that was applied, "none" before it
    res      \* its IResult

vars == <<buf, addr, length, flags, op, res>>

(***************************************************************************)
(* Bounds of the model                                                     *)
(***************************************************************************)
MaxHdrBuf == 10

MaxWordBuf == 4

MaxPayload == 9

MaxLen == 8

MaxSetBuf == 13

(***************************************************************************)
(* Results                                                                 *)
(***************************************************************************)
Ok(tail, val) == [ok |-> TRUE, tail |-> tail, val |-> val]

Err(kind) == [ok |-> FALSE, kind |-> kind]

None == << >>

Some(x) == << x >>

Drop(bytes, n) == SubSeq(bytes, n + 1, Len(bytes))

(***************************************************************************)
(* nom::bytes::complete::take and nom::number::complete::be_*              *)
(***************************************************************************)
take(n, bytes) ==
    IF Len(bytes) < n THEN Err("Eof")
    ELSE Ok(Drop(bytes, n), SubSeq(bytes, 1, n))

U32(n) == [hi |-> n \div 65536, lo |-> n % 65536]

be_u8(bytes) ==
    IF Len(bytes) < 1 THEN Err("Eof")
    ELSE Ok(Drop(bytes, 1), bytes[1])

be_u16(bytes) ==
    IF Len(bytes) < 2 THEN Err("Eof")
    ELSE Ok(Drop(bytes, 2), bytes[1] * 256 + bytes[2])

be_u24(bytes) ==
    IF Len(bytes) < 3 THEN Err("Eof")
    ELSE Ok(Drop(bytes, 3), bytes[1] * 65536 + bytes[2] * 256 + bytes[3])

be_u32(bytes) ==
    IF Len(bytes) < 4 THEN Err("Eof")
    ELSE Ok(Drop(bytes, 4),
            [hi |-> bytes[1] * 256 + bytes[2], lo |-> bytes[3] * 256 + bytes[4]])

be_u64(bytes) ==
    IF Len(bytes) < 8 THEN Err("Eof")
    ELSE Ok(Drop(bytes, 8),
            [hi |-> be_u32(bytes).val, lo |-> be_u32(Drop(bytes, 4)).val])

saturating_sub(a, b) == IF a < b THEN 0 ELSE a - b

(***************************************************************************)
(* Flags: one byte and its bit constants                                   *)
(***************************************************************************)
ACK == 1

PADDED == 8

PRIORITY == 32

Flags_from(v) == [bits |-> v]

contains(f, bit) == (f.bits \div bit) % 2 = 1

(***************************************************************************)
(* Wire primitives: #[bitfield(u32)] structs.  bitfield_struct lays the    *)
(* fields out from the least significant bit in declaration order.         *)
(***************************************************************************)
FrameHeaderLength_from_bits(v) == [bits |-> v]

FrameHeaderLength_length(x) == x.bits % 16777216

StreamIdentifier_from_bits(w) == [bits |-> w]

StreamIdentifier_stream_identifier(x) == x.bits.hi * 32768 + x.bits.lo \div 2

StreamDependency_from_bits(w) == [bits |-> w]

StreamDependency_exclusive(x) == x.bits.lo % 2 = 1

StreamDependency_stream_identifier(x) == x.bits.hi * 32768 + x.bits.lo \div 2

WindowSizeIncrement_from_bits(w) == [bits |-> w]

WindowSizeIncrement_window_size(x) == x.bits.hi * 32768 + x.bits.lo \div 2

(***************************************************************************)
(* Open enumerations.  A variant is [tag, raw]: raw is << >> for a named   *)
(* variant and << v >> for the catch-all one.                              *)
(***************************************************************************)
Named(tag) == [tag |-> tag, raw |-> << >>]

Raw(tag, v) == [tag |-> tag, raw |-> << v >>]

ErrorCode_from(value) ==
    CASE value = U32(0) -> Named("NO_ERROR")
      [] value = U32(1) -> Named("PROTOCOL_ERROR")
      [] value = U32(2) -> Named("INTERNAL_ERROR")
      [] value = U32(3) -> Named("FLOW_CONTROL_ERROR")
      [] value = U32(4) -> Named("SETTINGS_TIMEOUT")
      [] value = U32(5) -> Named("STREAM_CLOSED")
      [] value = U32(6) -> Named("FRAME_SIZE_ERROR")
      [] value = U32(7) -> Named("REFUSED_STREAM")
      [] value = U32(8) -> Named("CANCEL")
      [] value = U32(9) -> Named("COMPRESSION_ERROR")
      [] value = U32(10) -> Named("CONNECT_ERROR")
      [] value = U32(11) -> Named("ENHANCE_YOUR_CALM")
      [] value = U32(12) -> Named("INADEQUATE_SECURITY")
      [] value = U32(13) -> Named("HTTP_1_1_REQUIRED")
      [] OTHER -> Raw("UNKNOWN", value)

ErrorCode_discriminant(e) ==
    CASE e.tag = "NO_ERROR" -> U32(0)
      [] e.tag = "PROTOCOL_ERROR" -> U32(1)
      [] e.tag = "INTERNAL_ERROR" -> U32(2)
      [] e.tag = "FLOW_CONTROL_ERROR" -> U32(3)
      [] e.tag = "SETTINGS_TIMEOUT" -> U32(4)
      [] e.tag = "STREAM_CLOSED" -> U32(5)
      [] e.tag = "FRAME_SIZE_ERROR" -> U32(6)
      [] e.tag = "REFUSED_STREAM" -> U32(7)
      [] e.tag = "CANCEL" -> U32(8)
      [] e.tag = "COMPRESSION_ERROR" -> U32(9)
      [] e.tag = "CONNECT_ERROR" -> U32(10)
      [] e.tag = "ENHANCE_YOUR_CALM" -> U32(11)
      [] e.tag = "INADEQUATE_SECURITY" -> U32(12)
      [] e.tag = "HTTP_1_1_REQUIRED" -> U32(13)
      [] e.tag = "UNKNOWN" -> e.raw[1]

\* A slip of FrameType::from: ORIGIN taken to follow ALTSVC directly.
FrameType_from_contiguous(value) ==
    CASE value = 0 -> Named("DATA")
      [] value = 1 -> Named("HEADERS")
      [] value = 2 -> Named("PRIORITY")
      [] value = 3 -> Named("RST_STREAM")
      [] value = 4 -> Named("SETTINGS")
      [] value = 5 -> Named("PUSH_PROMISE")
      [] value = 6 -> Named("PING")
      [] value = 7 -> Named("GOAWAY")
      [] value = 8 -> Named("WINDOW_UPDATE")
      [] value = 9 -> Named("CONTINUATION")
      [] value = 10 -> Named("ALTSVC")
      [] value = 11 -> Named("ORIGIN")
      [] OTHER -> Raw("UNKNOWN", value)

FrameType_from(value) ==
    CASE value = 0 -> Named("DATA")
      [] value = 1 -> Named("HEADERS")
      [] value = 2 -> Named("PRIORITY")
      [] value = 3 -> Named("RST_STREAM")
      [] value = 4 -> Named("SETTINGS")
      [] value = 5 -> Named("PUSH_PROMISE")
      [] value = 6 -> Named("PING")
      [] value = 7 -> Named("GOAWAY")
      [] value = 8 -> Named("WINDOW_UPDATE")
      [] value = 9 -> Named("CONTINUATION")
      [] value = 10 -> Named("ALTSVC")
      [] value = 12 -> Named("ORIGIN")
      [] OTHER -> Raw("UNKNOWN", value)

FrameType_discriminant(t) ==
    CASE t.tag = "DATA" -> 0
      [] t.tag = "HEADERS" -> 1
      [] t.tag = "PRIORITY" -> 2
      [] t.tag = "RST_STREAM" -> 3
      [] t.tag = "SETTINGS" -> 4
      [] t.tag = "PUSH_PROMISE" -> 5
      [] t.tag = "PING" -> 6
      [] t.tag = "GOAWAY" -> 7
      [] t.tag = "WINDOW_UPDATE" -> 8
      [] t.tag = "CONTINUATION" -> 9
      [] t.tag = "ALTSVC" -> 10
      [] t.tag = "ORIGIN" -> 12
      [] t.tag = "UNKNOWN" -> t.raw[1]

SettingsParameter_from(value) ==
    CASE value = 1 -> Named("SETTINGS_HEADER_TABLE_SIZE")
      [] value = 2 -> Named("SETTINGS_ENABLE_PUSH")
      [] value = 3 -> Named("SETTINGS_MAX_CONCURRENT_STREAMS")
      [] value = 4 -> Named("SETTINGS_INITIAL_WINDOW_SIZE")
      [] value = 5 -> Named("SETTINGS_MAX_FRAME_SIZE")
      [] value = 6 -> Named("SETTINGS_MAX_HEADER_LIST_SIZE")
      [] OTHER -> Raw("RESERVED", value)

SettingsParameter_discriminant(p) ==
    CASE p.tag = "SETTINGS_HEADER_TABLE_SIZE" -> 1
      [] p.tag = "SETTINGS_ENABLE_PUSH" -> 2
      [] p.tag = "SETTINGS_MAX_CONCURRENT_STREAMS" -> 3
      [] p.tag = "SETTINGS_INITIAL_WINDOW_SIZE" -> 4
      [] p.tag = "SETTINGS_MAX_FRAME_SIZE" -> 5
      [] p.tag = "SETTINGS_MAX_HEADER_LIST_SIZE" -> 6
      [] p.tag = "RESERVED" -> p.raw[1]

(***************************************************************************)
(* Small parsers                                                           *)
(***************************************************************************)
parse_stream_identifier(bytes) ==
    LET r == be_u32(bytes)
    IN  IF r.ok THEN Ok(r.tail, StreamIdentifier_from_bits(r.val)) ELSE r

parse_stream_dependency(bytes) ==
    LET r == be_u32(bytes)
    IN  IF r.ok THEN Ok(r.tail, StreamDependency_from_bits(r.val)) ELSE r

parse_weight(bytes) == be_u8(bytes)

parse_error_code(bytes) ==
    LET r == be_u32(bytes)
    IN  IF r.ok THEN Ok(r.tail, ErrorCode_from(r.val)) ELSE r

\* A slip of parse_payload: taking what is there when the buffer is short.
parse_payload_clamped(bytes, len) ==
    take(IF Len(bytes) < len THEN Len(bytes) ELSE len, bytes)

parse_payload(bytes, len) == take(len, bytes)

(***************************************************************************)
(* FrameHeader::parse                                                      *)
(***************************************************************************)
\* Two slips of FrameHeader::parse: returning the remainder of the 9-byte
\* slice instead of the tail, and reading the flags byte before the type byte.
FrameHeader_fields(nine, type_at, flags_at) ==
    [length |-> FrameHeaderLength_from_bits(be_u24(nine).val),
     frame_type |-> FrameType_from(nine[type_at]),
     flags |-> Flags_from(nine[flags_at]),
     stream_identifier |-> StreamIdentifier_from_bits(be_u32(Drop(nine, 5)).val)]

FrameHeader_parse_inner_tail(bytes) ==
    LET t == take(9, bytes)
    IN  IF ~t.ok THEN t
        ELSE Ok(be_u32(Drop(t.val, 5)).tail, FrameHeader_fields(t.val, 4, 5))

FrameHeader_parse_flags_first(bytes) ==
    LET t == take(9, bytes)
    IN  IF ~t.ok THEN t
        ELSE Ok(t.tail, FrameHeader_fields(t.val, 5, 4))

FrameHeader_parse(bytes) ==
    LET t == take(9, bytes)
    IN  IF ~t.ok THEN t
        ELSE
        LET l == be_u24(t.val)
        IN  IF ~l.ok THEN l
            ELSE
            LET ft == be_u8(l.tail)
            IN  IF ~ft.ok THEN ft
                ELSE
                LET fl == be_u8(ft.tail)
                IN  IF ~fl.ok THEN fl
                    ELSE
                    LET si == be_u32(fl.tail)
                    IN  IF ~si.ok THEN si
                        ELSE Ok(t.tail,
                                [length |-> FrameHeaderLength_from_bits(l.val),
                                 frame_type |-> FrameType_from(ft.val),
                                 flags |-> Flags_from(fl.val),
                                 stream_identifier |->
                                     StreamIdentifier_from_bits(si.val)])

(***************************************************************************)
(* Optional fields                                                         *)
(***************************************************************************)
parse_optional_padding_length(bytes, f) ==
    IF contains(f, PADDED)
    THEN LET r == be_u8(bytes) IN IF r.ok THEN Ok(r.tail, Some(r.val)) ELSE r
    ELSE Ok(bytes, None)

parse_optional_padding_bytes(bytes, maybe_pad_len) ==
    IF maybe_pad_len # None
    THEN LET r == take(maybe_pad_len[1], bytes)
         IN  IF r.ok THEN Ok(r.tail, Some(r.val)) ELSE r
    ELSE Ok(bytes, None)

parse_optional_stream_dependency(bytes, f) ==
    IF contains(f, PRIORITY)
    THEN LET r == be_u32(bytes)
         IN  IF r.ok THEN Ok(r.tail, Some(StreamDependency_from_bits(r.val))) ELSE r
    ELSE Ok(bytes, None)

parse_optional_weight(bytes, f) ==
    IF contains(f, PRIORITY)
    THEN LET r == be_u8(bytes) IN IF r.ok THEN Ok(r.tail, Some(r.val)) ELSE r
    ELSE Ok(bytes, None)

unwrap_or(opt, d) == IF opt = None THEN d ELSE opt[1]

(***************************************************************************)
(* DataFrame::parse                                                        *)
(***************************************************************************)
DataFrame_parse(bytes, len, f) ==
    LET p == parse_optional_padding_length(bytes, f)
    IN  IF ~p.ok THEN p
        ELSE
        LET pad_len      == unwrap_or(p.val, 0)
            adjusted_len == saturating_sub(FrameHeaderLength_length(len), pad_len)
            d            == parse_payload(p.tail, adjusted_len)
        IN  IF ~d.ok THEN d
            ELSE
            LET pb == parse_optional_padding_bytes(d.tail, p.val)
            IN  IF ~pb.ok THEN pb
                ELSE Ok(pb.tail, [pad_length |-> p.val,
                                  data |-> d.val,
                                  padding |-> pb.val])

(***************************************************************************)
(* HeadersFrame::parse                                                     *)
(***************************************************************************)
HeadersFrame_parse(bytes, len, f) ==
    LET p == parse_optional_padding_length(bytes, f)
    IN  IF ~p.ok THEN p
        ELSE
        LET pad_len      == unwrap_or(p.val, 0)
            adjusted_len == saturating_sub(FrameHeaderLength_length(len), pad_len)
            sd           == parse_optional_stream_dependency(p.tail, f)
        IN  IF ~sd.ok THEN sd
            ELSE
            LET w == parse_optional_weight(sd.tail, f)
            IN  IF ~w.ok THEN w
                ELSE
                LET h == parse_payload(w.tail, adjusted_len)
                IN  IF ~h.ok THEN h
                    ELSE
                    LET pb == parse_optional_padding_bytes(h.tail, p.val)
                    IN  IF ~pb.ok THEN pb
                        ELSE Ok(pb.tail, [pad_length |-> p.val,
                                          stream_dependency |-> sd.val,
                                          weight |-> w.val,
                                          header_block_fragment |-> h.val,
                                          padding |-> pb.val])

(***************************************************************************)
(* PushPromiseFrame::parse                                                 *)
(***************************************************************************)
PushPromiseFrame_parse(bytes, len, f) ==
    LET t == take(FrameHeaderLength_length(len), bytes)
    IN  IF ~t.ok THEN t
        ELSE
        LET p == parse_optional_padding_length(t.val, f)
        IN  IF ~p.ok THEN p
            ELSE
            LET sid == parse_stream_identifier(p.tail)
            IN  IF ~sid.ok THEN sid
                ELSE
                LET pad_len      == unwrap_or(p.val, 0)
                    adjusted_len == saturating_sub(Len(sid.tail), pad_len)
                    h            == parse_payload(sid.tail, adjusted_len)
                IN  IF ~h.ok THEN h
                    ELSE
                    LET pb == parse_optional_padding_bytes(h.tail, p.val)
                    IN  IF ~pb.ok THEN pb
                        ELSE Ok(t.tail, [pad_length |-> p.val,
                                         promised_stream_identifier |-> sid.val,
                                         header_block_fragment |-> h.val,
                                         padding |-> pb.val])

(***************************************************************************)
(* WindowUpdateFrame::parse                                                *)
(***************************************************************************)
WindowUpdateFrame_parse(bytes) ==
    LET r == be_u32(bytes)
    IN  IF r.ok
        THEN Ok(r.tail, [window_size_increment |-> WindowSizeIncrement_from_bits(r.val)])
        ELSE r

(***************************************************************************)
(* PriorityFrame::parse, RstStreamFrame::parse, PingFrame::parse           *)
(***************************************************************************)
PriorityFrame_parse(bytes) ==
    LET t == take(5, bytes)
    IN  IF ~t.ok THEN t
        ELSE
        LET sd == parse_stream_dependency(t.val)
        IN  IF ~sd.ok THEN sd
            ELSE
            LET w == parse_weight(sd.tail)
            IN  IF ~w.ok THEN w
                ELSE Ok(t.tail, [stream_dependency |-> sd.val, weight |-> w.val])

RstStreamFrame_parse(bytes) ==
    LET e == parse_error_code(bytes)
    IN  IF ~e.ok THEN e ELSE Ok(e.tail, [error_code |-> e.val])

PingFrame_parse(bytes) ==
    LET r == be_u64(bytes)
    IN  IF ~r.ok THEN r ELSE Ok(r.tail, [opaque_data |-> r.val])

(***************************************************************************)
(* GoAwayFrame::parse                                                      *)
(***************************************************************************)
GoAwayFrame_parse(bytes, len) ==
    LET t == take(FrameHeaderLength_length(len), bytes)
    IN  IF ~t.ok THEN t
        ELSE
        LET sid == parse_stream_identifier(t.val)
        IN  IF ~sid.ok THEN sid
            ELSE
            LET e == parse_error_code(sid.tail)
            IN  IF ~e.ok THEN e
                ELSE
                LET remaining == Len(e.tail)
                    d         == parse_payload(e.tail, remaining)
                IN  IF remaining # 0 /\ ~d.ok THEN d
                    ELSE Ok(t.tail,
                            [last_stream_identifier |-> sid.val,
                             error_code |-> e.val,
                             debug_data |-> IF remaining # 0 THEN Some(d.val)
                                            ELSE None])

(***************************************************************************)
(* ContinuationFrame::parse                                                *)
(***************************************************************************)
ContinuationFrame_parse(bytes, len) ==
    LET h == parse_payload(bytes, FrameHeaderLength_length(len))
    IN  IF ~h.ok THEN h ELSE Ok(h.tail, [header_block_fragment |-> h.val])

(***************************************************************************)
(* SettingsFrame::parse                                                    *)
(*                                                                         *)
(* Without ACK the payload bytes are not decoded: the byte pointer is cast *)
(* to *const SettingsParameterFrame and count = len / 6 records are        *)
(* claimed from it.  SettingsParameterFrame is a repr(Rust) struct of a    *)
(* repr(u16) enum with a u16 payload (4 bytes) and a u32: 8 bytes, aligned *)
(* to 4.  The records therefore alias 8 * count bytes of memory starting   *)
(* at the first payload byte, in native byte order, in a field order the   *)
(* compiler chooses; bytes past the end of the buffer are whatever memory  *)
(* holds, and a tag outside 1..7 is no variant at all.  The outcome is a   *)
(* choice over these.                                                      *)
(***************************************************************************)
align_of_SettingsParameterFrame == 4

size_of_SettingsParameterFrame == 8

Layouts == {"value_first", "identifier_first"}

OobBytes == {0, 255}

le_u16(a, b) == b * 256 + a

le_u32(a, b, c, d) == [hi |-> d * 256 + c, lo |-> b * 256 + a]

MemAt(bytes, i, g) == IF i <= Len(bytes) THEN bytes[i] ELSE g

transmute_SettingsParameter(tag, payload) ==
    CASE tag = 1 -> Named("SETTINGS_HEADER_TABLE_SIZE")
      [] tag = 2 -> Named("SETTINGS_ENABLE_PUSH")
      [] tag = 3 -> Named("SETTINGS_MAX_CONCURRENT_STREAMS")
      [] tag = 4 -> Named("SETTINGS_INITIAL_WINDOW_SIZE")
      [] tag = 5 -> Named("SETTINGS_MAX_FRAME_SIZE")
      [] tag = 6 -> Named("SETTINGS_MAX_HEADER_LIST_SIZE")
      [] tag = 7 -> Raw("RESERVED", payload)
      [] OTHER -> Raw("INVALID", tag)

reinterpret_record(bytes, k, lay, g) ==
    LET c(j) == MemAt(bytes, size_of_SettingsParameterFrame * (k - 1) + j, g)
    IN  IF lay = "value_first"
        THEN [identifier |-> transmute_SettingsParameter(le_u16(c(5), c(6)),
                                                         le_u16(c(7), c(8))),
              value |-> le_u32(c(1), c(2), c(3), c(4))]
        ELSE [identifier |-> transmute_SettingsParameter(le_u16(c(1), c(2)),
                                                         le_u16(c(3), c(4))),
              value |-> le_u32(c(5), c(6), c(7), c(8))]

from_raw_parts(bytes, count) ==
    { [k \in 1..count |-> reinterpret_record(bytes, k, lay, g)] :
          lay \in Layouts, g \in OobBytes }

SettingsFrame_cast(bytes, t, a) ==
    IF a % align_of_SettingsParameterFrame # 0 THEN { Err("Verify") }
    ELSE LET count == Len(t.val) \div 6
         IN  { Ok(t.tail, [parameters |-> Some(ps)]) :
                   ps \in from_raw_parts(bytes, count) }

\* Two slips of SettingsFrame::parse: bounding the payload before looking at
\* ACK, and leaving out the multiple-of-6 test.
SettingsFrame_parse_length_first(bytes, len, f, a) ==
    LET t == take(FrameHeaderLength_length(len), bytes)
    IN  IF ~t.ok THEN { t }
        ELSE IF contains(f, ACK) THEN { Ok(t.tail, [parameters |-> None]) }
        ELSE IF Len(t.val) % 6 # 0 THEN { Err("LengthValue") }
        ELSE SettingsFrame_cast(bytes, t, a)

SettingsFrame_parse_truncating(bytes, len, f, a) ==
    IF contains(f, ACK)
    THEN { Ok(bytes, [parameters |-> None]) }
    ELSE
    LET t == take(FrameHeaderLength_length(len), bytes)
    IN  IF ~t.ok THEN { t }
        ELSE SettingsFrame_cast(bytes, t, a)

SettingsFrame_parse(bytes, len, f, a) ==
    IF contains(f, ACK)
    THEN { Ok(bytes, [parameters |-> None]) }
    ELSE
    LET t == take(FrameHeaderLength_length(len), bytes)
    IN  IF ~t.ok THEN { t }
        ELSE IF Len(t.val) % 6 # 0 THEN { Err("LengthValue") }
        ELSE SettingsFrame_cast(bytes, t, a)

(***************************************************************************)
(* Frame::parse                                                            *)
(*                                                                         *)
(* The function has no return type: every result is unwrapped and dropped. *)
(* An Err from the header or a body codec panics in unwrap(), ALTSVC,      *)
(* ORIGIN and UNKNOWN panic in todo!().  The outcome is either a panic or  *)
(* the return of (); the header and the body result that were computed and *)
(* dropped are kept in the outcome so that the reads of the call can be    *)
(* stated.  a is the address of the first byte of the buffer modulo 4; the *)
(* payload starts 9 bytes later.                                           *)
(***************************************************************************)
Panic(why) == [ok |-> FALSE, kind |-> "panic", why |-> why]

Unit(header, body) ==
    [ok |-> TRUE, returned |-> "unit", header |-> header, body |-> body]

Frame_body(bytes, frame_header, a) ==
    LET t == frame_header.frame_type.tag
        l == frame_header.length
        f == frame_header.flags
    IN  CASE t = "DATA" -> { DataFrame_parse(bytes, l, f) }
          [] t = "HEADERS" -> { HeadersFrame_parse(bytes, l, f) }
          [] t = "PRIORITY" -> { PriorityFrame_parse(bytes) }
          [] t = "RST_STREAM" -> { RstStreamFrame_parse(bytes) }
          [] t = "SETTINGS" -> SettingsFrame_parse(bytes, l, f, a)
          [] t = "PUSH_PROMISE" -> { PushPromiseFrame_parse(bytes, l, f) }
          [] t = "PING" -> { PingFrame_parse(bytes) }
          [] t = "GOAWAY" -> { GoAwayFrame_parse(bytes, l) }
          [] t = "WINDOW_UPDATE" -> { WindowUpdateFrame_parse(bytes) }
          [] t = "CONTINUATION" -> { ContinuationFrame_parse(bytes, l) }

Frame_parse(bytes, a) ==
    LET h == FrameHeader_parse(bytes)
    IN  IF ~h.ok THEN { Panic("unwrap") }
        ELSE IF h.val.frame_type.tag \in {"ALTSVC", "ORIGIN", "UNKNOWN"}
        THEN { Panic("todo") }
        ELSE { IF b.ok THEN Unit(h.val, b) ELSE Panic("unwrap") :
                   b \in Frame_body(h.tail, h.val, (a + 9) % 4) }

(***************************************************************************)
(* Inputs                                                                  *)
(***************************************************************************)
NoResult == Err("none")

HdrByteAt(i) ==
    CASE i = 1 -> {0, 255}
      [] i = 2 -> {0, 1}
      [] i = 3 -> {0, 16}
      [] i = 4 -> {0, 1, 4, 10, 11, 12, 255}
      [] i = 5 -> {0, 8, 255}
      [] i = 6 -> {0, 128}
      [] i = 9 -> {1, 2}
      [] i = 10 -> {0, 9}
      [] OTHER -> {0}

WordByteAt(i) ==
    CASE i = 1 -> 0..14 \cup {128, 153, 255}
      [] i = 2 -> 0..7 \cup {153}
      [] i = 3 -> {0, 128}
      [] i = 4 -> 0..14 \cup {255}
      [] OTHER -> {0}

PayloadByteAt(i) ==
    CASE i = 1 -> {0, 1, 2, 3, 200}
      [] i = 2 -> {0, 128}
      [] OTHER -> {16 * i + 1}

SetByteAt(i) ==
    CASE i % 6 = 2 -> {1, 153}
      [] i % 6 = 0 -> {5, 255}
      [] OTHER -> {0}

FrameByteAt(i) ==
    CASE i = 3 -> 0..MaxLen
      [] i = 4 -> 0..12 \cup {255}
      [] i = 5 -> {0, 1, 8, 40}
      [] i = 9 -> {1}
      [] i = 10 -> {0, 1, 2}
      [] i = 11 -> {0, 128}
      [] i > 11 -> {16 * (i - 9) + 1}
      [] OTHER -> {0}

ByteAt(family, i) ==
    CASE family = "header" -> HdrByteAt(i)
      [] family = "word" -> WordByteAt(i)
      [] family = "payload" -> PayloadByteAt(i)
      [] family = "settings" -> SetByteAt(i)
      [] family = "frame" -> FrameByteAt(i)

RECURSIVE BuffersOfLen(_, _)
BuffersOfLen(family, n) ==
    IF n = 0 THEN { << >> }
    ELSE { Append(b, x) : b \in BuffersOfLen(family, n - 1), x \in ByteAt(family, n) }

Buffers(family, max) == UNION { BuffersOfLen(family, n) : n \in 0..max }

BodyFlags == {0, 1, 8, 32, 40, 255}

SetFlags == {0, 1, 8, 255}

Addrs == 0..3

FrameAddrs == {0, 3}

InitWire ==
    /\ buf \in Buffers("header", MaxHdrBuf) \cup Buffers("word", MaxWordBuf)
    /\ addr = 0
    /\ length = 0
    /\ flags = 0
    /\ op = "none"
    /\ res = NoResult

InitBody ==
    /\ buf \in Buffers("payload", MaxPayload)
    /\ addr = 0
    /\ length \in 0..MaxLen
    /\ flags \in BodyFlags
    /\ op = "none"
    /\ res = NoResult

InitSettings ==
    /\ buf \in Buffers("settings", MaxSetBuf)
    /\ addr \in Addrs
    /\ length \in 0..MaxSetBuf
    /\ flags \in SetFlags
    /\ op = "none"
    /\ res = NoResult

InitFrame ==
    /\ buf \in Buffers("frame", 9 + MaxPayload)
    /\ addr \in FrameAddrs
    /\ length = 0
    /\ flags = 0
    /\ op = "none"
    /\ res = NoResult

(***************************************************************************)
(* Operations: one decode call on the inputs                               *)
(***************************************************************************)
Apply(name, r) ==
    /\ op = "none"
    /\ op' = name
    /\ res' = r
    /\ UNCHANGED <<buf, addr, length, flags>>

DoFrameHeaderParse == Apply("FrameHeader::parse", FrameHeader_parse(buf))

DoParseStreamIdentifier ==
    Apply("parse_stream_identifier", parse_stream_identifier(buf))

DoParseStreamDependency ==
    Apply("parse_stream_dependency", parse_stream_dependency(buf))

DoWindowUpdateParse == Apply("WindowUpdateFrame::parse", WindowUpdateFrame_parse(buf))

DoParseErrorCode == Apply("parse_error_code", parse_error_code(buf))

DoFrameTypeFrom ==
    LET r == be_u8(buf)
    IN  Apply("FrameType::from",
              IF r.ok THEN Ok(r.tail, FrameType_from(r.val)) ELSE r)

DoSettingsParameterFrom ==
    LET r == be_u16(buf)
    IN  Apply("SettingsParameter::from",
              IF r.ok THEN Ok(r.tail, SettingsParameter_from(r.val)) ELSE r)

DoDataParse ==
    Apply("DataFrame::parse",
          DataFrame_parse(buf, FrameHeaderLength_from_bits(length), Flags_from(flags)))

DoHeadersParse ==
    Apply("HeadersFrame::parse",
          HeadersFrame_parse(buf, FrameHeaderLength_from_bits(length), Flags_from(flags)))

DoPushPromiseParse ==
    Apply("PushPromiseFrame::parse",
          PushPromiseFrame_parse(buf, FrameHeaderLength_from_bits(length),
                                 Flags_from(flags)))

DoSettingsParse ==
    \E r \in SettingsFrame_parse(buf, FrameHeaderLength_from_bits(length),
                                 Flags_from(flags), addr) :
        Apply("SettingsFrame::parse", r)

DoGoAwayParse ==
    Apply("GoAwayFrame::parse",
          GoAwayFrame_parse(buf, FrameHeaderLength_from_bits(length)))

DoContinuationParse ==
    Apply("ContinuationFrame::parse",
          ContinuationFrame_parse(buf, FrameHeaderLength_from_bits(length)))

DoFrameParse ==
    \E r \in Frame_parse(buf, addr) : Apply("Frame::parse", r)

NextWire ==
    \/ DoFrameHeaderParse
    \/ DoParseStreamIdentifier
    \/ DoParseStreamDependency
    \/ DoWindowUpdateParse
    \/ DoParseErrorCode
    \/ DoFrameTypeFrom
    \/ DoSettingsParameterFrom

NextBody ==
    \/ DoDataParse
    \/ DoHeadersParse
    \/ DoPushPromiseParse
    \/ DoGoAwayParse
    \/ DoContinuationParse
    \/ DoSettingsParse

NextSettings == DoSettingsParse

NextFrame == DoFrameParse

SpecWire == InitWire /\ [][NextWire]_vars

SpecBody == InitBody /\ [][NextBody]_vars

SpecSettings == InitSettings /\ [][NextSettings]_vars

SpecFrame == InitFrame /\ [][NextFrame]_vars

Init == InitWire \/ InitBody \/ InitSettings \/ InitFrame

Next == NextWire \/ NextBody \/ NextSettings \/ NextFrame

Spec == Init /\ [][Next]_vars

(***************************************************************************)
(* Properties                                                              *)
(***************************************************************************)
Consumed == Len(buf) - Len(res.tail)

IsPadded == contains(Flags_from(flags), PADDED)

IsPriority == contains(Flags_from(flags), PRIORITY)

IsAck == contains(Flags_from(flags), ACK)

Low31(b) == (b[1] % 128) * 16777216 + b[2] * 65536 + b[3] * 256 + b[4]

\* C1: FrameHeader::parse succeeds exactly when the buffer holds at least 9
\* bytes; on success it consumes 9 bytes and the tail is the buffer from
\* offset 9 on, whatever the length field says.
C1_HeaderNeedsNineBytes ==
    op = "FrameHeader::parse" =>
        /\ res.ok <=> Len(buf) >= 9
        /\ res.ok => /\ Consumed = 9
                     /\ res.tail = Drop(buf, 9)

C1_Witness ==
    /\ op = "FrameHeader::parse"
    /\ Len(buf) = 10
    /\ res.ok
    /\ Len(res.tail) = 1
    /\ FrameHeaderLength_length(res.val.length) = 16

\* C2: a decoded header has length = b0*65536 + b1*256 + b2 (< 2^24), the
\* frame type of wire value b3 and the flags byte b4 with all 8 bits kept.
C2_HeaderFields ==
    op = "FrameHeader::parse" /\ res.ok =>
        /\ FrameHeaderLength_length(res.val.length)
               = buf[1] * 65536 + buf[2] * 256 + buf[3]
        /\ FrameHeaderLength_length(res.val.length) < 16777216
        /\ FrameType_discriminant(res.val.frame_type) = buf[4]
        /\ res.val.flags = [bits |-> buf[5]]
        /\ SubSeq(buf, 1, 5) = <<0, 0, 16, 0, 0>> =>
               /\ FrameHeaderLength_length(res.val.length) = 16
               /\ res.val.frame_type = Named("DATA")
               /\ res.val.flags.bits = 0
        /\ SubSeq(buf, 1, 5) = <<0, 1, 0, 1, 255>> =>
               /\ FrameHeaderLength_length(res.val.length) = 256
               /\ res.val.frame_type = Named("HEADERS")
               /\ res.val.flags.bits = 255

C2_Witness ==
    /\ op = "FrameHeader::parse"
    /\ res.ok
    /\ SubSeq(buf, 1, 5) = <<0, 1, 0, 1, 255>>
    /\ FrameHeaderLength_length(res.val.length) = 256
    /\ res.val.flags.bits = 255

\* C3: the 1-bit/31-bit primitives drop the top bit of the big-endian word:
\* the stream identifier and the window size are w mod 2^31, and exclusive
\* is the top bit (w >= 2^31).
C3_TopBitDiscarded ==
    /\ op = "parse_stream_identifier" /\ res.ok =>
           StreamIdentifier_stream_identifier(res.val) = Low31(buf)
    /\ op = "WindowUpdateFrame::parse" /\ res.ok =>
           WindowSizeIncrement_window_size(res.val.window_size_increment)
               = Low31(buf)
    /\ op = "parse_stream_dependency" /\ res.ok =>
           /\ StreamDependency_exclusive(res.val) = (buf[1] >= 128)
           /\ StreamDependency_stream_identifier(res.val) = Low31(buf)
    /\ op = "FrameHeader::parse" /\ res.ok =>
           StreamIdentifier_stream_identifier(res.val.stream_identifier)
               = Low31(Drop(buf, 5))

FrameTypeNames ==
    <<"DATA", "HEADERS", "PRIORITY", "RST_STREAM", "SETTINGS", "PUSH_PROMISE",
      "PING", "GOAWAY", "WINDOW_UPDATE", "CONTINUATION", "ALTSVC", "UNKNOWN",
      "ORIGIN">>

\* C4: the open enumerations are total and lossless: the variant of a wire
\* value carries that value back (so no two wire values share a variant),
\* the named variants are exactly those of the assigned values, and a full
\* header decodes whatever its type byte is.
C4_OpenEnumerations ==
    /\ op = "FrameType::from" /\ Len(buf) >= 1 =>
           /\ res.ok
           /\ FrameType_discriminant(res.val) = buf[1]
           /\ res.val.tag = "UNKNOWN" <=> buf[1] \notin (0..10 \cup {12})
           /\ buf[1] <= 12 => res.val.tag = FrameTypeNames[buf[1] + 1]
    /\ op = "parse_error_code" /\ Len(buf) >= 4 =>
           /\ res.ok
           /\ ErrorCode_discriminant(res.val) = be_u32(buf).val
           /\ res.val.tag = "UNKNOWN"
                  <=> ~(buf[1] = 0 /\ buf[2] = 0 /\ buf[3] = 0 /\ buf[4] <= 13)
    /\ op = "SettingsParameter::from" /\ Len(buf) >= 2 =>
           /\ res.ok
           /\ SettingsParameter_discriminant(res.val) = buf[1] * 256 + buf[2]
           /\ res.val.tag = "RESERVED" <=> buf[1] * 256 + buf[2] \notin 1..6
    /\ op = "FrameHeader::parse" /\ Len(buf) >= 9 =>
           /\ res.ok
           /\ buf[4] = 255 => res.val.frame_type = Raw("UNKNOWN", 255)

C4_Witness ==
    /\ op = "FrameType::from"
    /\ res.ok
    /\ buf[1] = 11
    /\ res.val = Raw("UNKNOWN", 11)

\* C5: a successful DataFrame::parse consumes exactly the declared length L;
\* without PADDED the data is the first L bytes and pad_length and padding
\* are absent; with PADDED and pad length P the data has L - 1 - P bytes and
\* the padding P bytes.
C5_DataLengthConserved ==
    op = "DataFrame::parse" /\ res.ok =>
        /\ Consumed = length
        /\ ~IsPadded => /\ res.val.data = SubSeq(buf, 1, length)
                        /\ res.val.pad_length = None
                        /\ res.val.padding = None
        /\ IsPadded => /\ res.val.pad_length = Some(buf[1])
                       /\ Len(res.val.data) = length - 1 - buf[1]
                       /\ res.val.padding # None
                       /\ Len(res.val.padding[1]) = buf[1]

FixedPad == IF IsPadded THEN 1 ELSE 0

FixedPriority == IF IsPriority THEN 5 ELSE 0

\* C6: HeadersFrame::parse reads pad length (iff PADDED), stream dependency
\* and weight (iff PRIORITY), the fragment, then the padding; the fragment
\* has L - (1 if PADDED) - (5 if PRIORITY) - P bytes and a successful decode
\* consumes exactly L bytes.
C6_HeadersLengthConserved ==
    op = "HeadersFrame::parse" /\ res.ok =>
        LET P    == IF IsPadded THEN buf[1] ELSE 0
            frag == res.val.header_block_fragment
        IN  /\ Consumed = length
            /\ Len(frag) = length - FixedPad - FixedPriority - P
            /\ frag = SubSeq(buf, FixedPad + FixedPriority + 1,
                             FixedPad + FixedPriority + Len(frag))
            /\ IsPriority =>
                   /\ res.val.stream_dependency
                          = Some(StreamDependency_from_bits(
                                     be_u32(Drop(buf, FixedPad)).val))
                   /\ res.val.weight = Some(buf[FixedPad + 5])
            /\ ~IsPriority => /\ res.val.stream_dependency = None
                              /\ res.val.weight = None
            /\ IsPadded <=> res.val.pad_length # None

FixedFields ==
    CASE op = "HeadersFrame::parse" -> FixedPriority
      [] op = "PushPromiseFrame::parse" -> 4
      [] OTHER -> 0

\* C7: with PADDED set, a pad length larger than what the declared length
\* leaves after the pad-length byte and the fixed fields makes DATA, HEADERS
\* and PUSH_PROMISE fail.
C7_OverlongPaddingFails ==
    /\ op \in {"DataFrame::parse", "HeadersFrame::parse", "PushPromiseFrame::parse"}
    /\ IsPadded
    /\ Len(buf) >= 1
    /\ buf[1] > length - 1 - FixedFields
    => ~res.ok

\* C8: with ACK set SettingsFrame::parse succeeds with no parameters, for
\* every declared length and payload.
C8_SettingsAck ==
    op = "SettingsFrame::parse" /\ IsAck =>
        /\ res.ok
        /\ res.val.parameters = None

C8_Witness ==
    /\ op = "SettingsFrame::parse"
    /\ IsAck
    /\ length = 7
    /\ Len(buf) < length
    /\ res.ok
    /\ res.val.parameters = None

\* C9: without ACK, a declared length that is not a multiple of 6 makes
\* SettingsFrame::parse fail.
C9_SettingsNotMultipleOfSix ==
    op = "SettingsFrame::parse" /\ ~IsAck /\ length % 6 # 0 => ~res.ok

C9_Witness ==
    /\ op = "SettingsFrame::parse"
    /\ ~IsAck
    /\ length = 7
    /\ Len(buf) >= 7
    /\ ~res.ok
    /\ res.kind = "LengthValue"

WireParameter(unit) ==
    [identifier |-> SettingsParameter_from(be_u16(unit).val),
     value |-> be_u32(Drop(unit, 2)).val]

\* C10: without ACK, a declared length L = 6k with at least L bytes
\* available decodes: L bytes are consumed and the k parameters are, in wire
\* order, the big-endian identifier and value of each 6-byte unit.
C10_SettingsParameters ==
    op = "SettingsFrame::parse" /\ ~IsAck /\ length % 6 = 0 /\ Len(buf) >= length =>
        /\ res.ok
        /\ res.tail = Drop(buf, length)
        /\ res.val.parameters
               = Some([i \in 1..(length \div 6) |->
                          WireParameter(SubSeq(buf, 6 * i - 5, 6 * i))])

\* C11: Frame::parse never panics: an unhandled type gives an
\* unsupported-frame-type outcome, a short buffer or a failing body gives the
\* decode error as a value, and a handled type gives the decoded Frame with
\* the unconsumed tail.
C11_DispatcherNeverPanics ==
    op = "Frame::parse" =>
        /\ res.ok \/ res.kind # "panic"
        /\ res.ok => res.returned = "frame"

HeaderLength == buf[1] * 65536 + buf[2] * 256 + buf[3]

FixedSize ==
    CASE buf[4] = 2 -> 5
      [] buf[4] = 3 -> 4
      [] buf[4] = 6 -> 8
      [] buf[4] = 8 -> 4

\* C12: PRIORITY, RST_STREAM, PING and WINDOW_UPDATE reached through
\* Frame::parse fail when the declared length is below the kind's fixed size,
\* and on success consume exactly the declared length.
C12_FixedSizeBounded ==
    op = "Frame::parse" /\ Len(buf) >= 9 /\ buf[4] \in {2, 3, 6, 8} =>
        /\ HeaderLength < FixedSize => ~res.ok
        /\ res.ok => Len(buf) - 9 - Len(res.body.tail) = HeaderLength

\* C13: decoding depends on the bytes, the declared length and the flags
\* only: the same buffer contents decode to the same outcome wherever the
\* buffer is placed, and a header decodes twice to the same value, consuming
\* 9 bytes.
C13_Deterministic ==
    /\ op = "SettingsFrame::parse" =>
           \A a \in Addrs :
               SettingsFrame_parse(buf, FrameHeaderLength_from_bits(length),
                                   Flags_from(flags), a) = { res }
    /\ op = "FrameHeader::parse" =>
           /\ FrameHeader_parse(buf) = res
           /\ res.ok => Consumed = 9
    /\ op = "DataFrame::parse" =>
           DataFrame_parse(buf, FrameHeaderLength_from_bits(length),
                           Flags_from(flags)) = res
    /\ op = "HeadersFrame::parse" =>
           HeadersFrame_parse(buf, FrameHeaderLength_from_bits(length),
                              Flags_from(flags)) = res
    /\ op = "PushPromiseFrame::parse" =>
           PushPromiseFrame_parse(buf, FrameHeaderLength_from_bits(length),
                                  Flags_from(flags)) = res
    /\ op = "GoAwayFrame::parse" =>
           GoAwayFrame_parse(buf, FrameHeaderLength_from_bits(length)) = res
    /\ op = "ContinuationFrame::parse" =>
           ContinuationFrame_parse(buf, FrameHeaderLength_from_bits(length)) = res

\* C14: GoAwayFrame::parse with L >= 8 and L bytes available consumes L
\* bytes, returns the last stream identifier of bytes 0..3 without the top
\* bit, the error code of bytes 4..7 and as debug data None when L = 8 and
\* otherwise the L - 8 bytes from offset 8; with L < 8 it fails.
C14_GoAway ==
    op = "GoAwayFrame::parse" =>
        /\ length < 8 => ~res.ok
        /\ length >= 8 /\ Len(buf) >= length =>
               /\ res.ok
               /\ Consumed = length
               /\ StreamIdentifier_stream_identifier(res.val.last_stream_identifier)
                      = Low31(buf)
               /\ ErrorCode_discriminant(res.val.error_code)
                      = be_u32(Drop(buf, 4)).val
               /\ res.val.debug_data
                      = IF length = 8 THEN None
                        ELSE Some(SubSeq(buf, 9, length))

\* C15: DATA, HEADERS, PUSH_PROMISE, GOAWAY, CONTINUATION and SETTINGS
\* without ACK fail whenever the payload view holds fewer bytes than the
\* declared length.
C15_InsufficientInputReported ==
    /\ \/ op \in {"DataFrame::parse", "HeadersFrame::parse",
                  "PushPromiseFrame::parse", "GoAwayFrame::parse",
                  "ContinuationFrame::parse"}
       \/ op = "SettingsFrame::parse" /\ ~IsAck
    /\ Len(buf) < length
    => ~res.ok

C15_Witness ==
    /\ op = "HeadersFrame::parse"
    /\ IsPadded
    /\ IsPriority
    /\ Len(buf) = 7
    /\ length = 8
    /\ ~res.ok

====
